---- MODULE Spec2Model ----
(***************************************************************************)
(* The workspace agent of tiangong_ai_workspace/agents/deep_agent.py: the  *)
(* plan -> act loop built by _build_langgraph_agent, its plan parser and    *)
(* the tool registry it is built with.                                      *)
(*                                                                          *)
(* A Python str is a sequence of tokens (TLA+ strings): one token stands    *)
(* for a run of characters that the code never looks inside (a word, one    *)
(* whitespace character, the fence delimiter, one whole JSON value).        *)
(* A Python value is a record [t |-> type, s |-> str(value)].               *)
(***************************************************************************)
EXTENDS Integers, Sequences, FiniteSets, TLC

\* ---------------------------------------------------------------- bounds
\* Longest text, in tokens, enumerated as input of the plan parser.
MaxTextLen == 3
\* Largest max_iterations the agent is built with.
MaxBudget == 3

\* ---------------------------------------------------------- Python values
Str(s) == [t |-> "str", s |-> s]
PyNone == [t |-> "none", s |-> <<"None">>]
PyList(s) == [t |-> "list", s |-> s]
PyDict(s) == [t |-> "dict", s |-> s]
PyInt(s) == [t |-> "int", s |-> s]

\* bool(v): None, "", 0, [] and {} are falsy.
Truthy(v) ==
    CASE v.t = "none" -> FALSE
      [] v.t = "str"  -> v.s # <<>>
      [] v.t = "int"  -> v.s # <<"0">>
      [] v.t = "list" -> v.s # <<"[]">>
      [] v.t = "dict" -> v.s # <<"{}">>
      [] OTHER        -> TRUE

\* a or b
Or(a, b) == IF Truthy(a) THEN a ELSE b

\* str(v)
PyStr(v) == Str(v.s)

\* hash(v) raises TypeError for a list or a dict.
Hashable(v) == v.t \notin {"list", "dict"}

\* mapping.get(key, default); a mapping is a function from key strings to values.
Get(m, k, d) == IF k \in DOMAIN m THEN m[k] ELSE d

\* mapping[key] = value
Put(m, k, v) == [x \in DOMAIN m \cup {k} |-> IF x = k THEN v ELSE m[x]]

FINISH == Str(<<"finish">>)

\* ------------------------------------------------------------ str methods
\* The token that stands for the three-backquote fence delimiter.
Fence == "<fence>"
IsSpace(tok) == tok \in {" ", "\n"}

RECURSIVE LStrip(_)
LStrip(s) == IF s # <<>> /\ IsSpace(Head(s)) THEN LStrip(Tail(s)) ELSE s

RECURSIVE RStrip(_)
RStrip(s) ==
    IF s # <<>> /\ IsSpace(s[Len(s)]) THEN RStrip(SubSeq(s, 1, Len(s) - 1)) ELSE s

\* str.strip()
Strip(s) == LStrip(RStrip(s))

\* the fence delimiter in s
HasFence(s) == \E i \in DOMAIN s : s[i] = Fence

\* s.split(fence)
RECURSIVE Split(_)
Split(s) ==
    IF ~HasFence(s) THEN <<s>>
    ELSE LET i == CHOOSE j \in DOMAIN s :
                      s[j] = Fence /\ \A k \in 1..(j - 1) : s[k] # Fence
         IN <<SubSeq(s, 1, i - 1)>> \o Split(SubSeq(s, i + 1, Len(s)))

\* str.lower() of one token.
Lower(tok) ==
    CASE tok \in {"JSON", "Json"} -> "json"
      [] tok = "LangGraph"       -> "langgraph"
      [] tok = "DEEPAGENTS"      -> "deepagents"
      [] tok = "READ"            -> "read"
      [] tok = "Create"          -> "create"
      [] OTHER                   -> tok

\* str.lower() of a text.
LowerAll(s) == [i \in DOMAIN s |-> Lower(s[i])]

\* ------------------------------------------------------------- json.loads
\* The JSON object texts the model enumerates, each with the mapping it
\* decodes to.
JsonObject ==
    [x \in {"{}"} |-> <<>>] @@
    ("{thought:All done.,action:finish,final_response:Completed task.}"
        :> [thought |-> Str(<<"All done.">>), action |-> FINISH,
            final_response |-> Str(<<"Completed task.">>)]) @@
    ("{action:finish}" :> [action |-> FINISH]) @@
    ("{action:finish,final_response:(empty),message:m}"
        :> [action |-> FINISH, final_response |-> Str(<<>>), message |-> Str(<<"m">>)]) @@
    ("{action:finish,final_response:0,message:m}"
        :> [action |-> FINISH, final_response |-> PyInt(<<"0">>), message |-> Str(<<"m">>)]) @@
    ("{action:finish,input:i}"
        :> [action |-> FINISH, input |-> Str(<<"i">>)]) @@
    ("{action:finish,final_response:done,input:i}"
        :> [action |-> FINISH, final_response |-> Str(<<"done">>),
            input |-> Str(<<"i">>)]) @@
    ("{thought:t}" :> [thought |-> Str(<<"t">>)]) @@
    ("{message:m,input:i}" :> [message |-> Str(<<"m">>), input |-> Str(<<"i">>)]) @@
    ("{input:i,thought:t}" :> [input |-> Str(<<"i">>), thought |-> Str(<<"t">>)]) @@
    ("{action:search,thought:need web}"
        :> [action |-> Str(<<"search">>), thought |-> Str(<<"need web">>)]) @@
    ("{action:search,final_response:fr}"
        :> [action |-> Str(<<"search">>), final_response |-> Str(<<"fr">>)]) @@
    ("{action:[shell]}" :> [action |-> PyList(<<"[shell]">>)]) @@
    ("{action:null}" :> [action |-> PyNone]) @@
    ("{action:shell,input:ls}"
        :> [action |-> Str(<<"shell">>), input |-> Str(<<"ls">>)]) @@
    ("{thought:t,action:shell,input:{command:ls}}"
        :> [thought |-> Str(<<"t">>), action |-> Str(<<"shell">>),
            input |-> PyDict(<<"{command: ls}">>)]) @@
    ("{action:neo4j,final_response:early}"
        :> [action |-> Str(<<"neo4j">>), final_response |-> Str(<<"early">>)])

\* JSON texts that decode to something that is no object.
JsonOther == {"[1]", "7"}

\* json.loads(text): surrounding whitespace is allowed, then exactly one value.
JsonDecodes(s) == Len(Strip(s)) = 1 /\ Strip(s)[1] \in (DOMAIN JsonObject) \cup JsonOther
JsonIsMapping(s) == JsonDecodes(s) /\ Strip(s)[1] \in DOMAIN JsonObject

\* ------------------------------------------------------------ _parse_plan
\* A tag test that forgets lower().
StartsWithJsonCaseSensitive(block) == block # <<>> /\ Head(block) = "json"

\* block.lower().startswith("json")
StartsWithJson(block) == block # <<>> /\ Lower(Head(block)) = "json"

\* The loop body over candidate.split(fence): the blocks kept, in order.
RECURSIVE Segments(_)
Segments(blocks) ==
    IF blocks = <<>> THEN <<>>
    ELSE LET block == Strip(Head(blocks))
         IN IF block = <<>> THEN Segments(Tail(blocks))
            ELSE IF StartsWithJson(block)
                 THEN <<Strip(Tail(block))>> \o Segments(Tail(blocks))
                 ELSE <<block>> \o Segments(Tail(blocks))

\* The text handed to json.loads.
Candidate(text) ==
    LET candidate == Strip(text)
    IN IF HasFence(candidate) /\ Segments(Split(candidate)) # <<>>
       THEN Segments(Split(candidate))[1]
       ELSE candidate

\* The try/except around json.loads and the fallback after it.
DecodeCandidate(candidate) ==
    IF JsonIsMapping(candidate)
    THEN JsonObject[Strip(candidate)[1]]
    ELSE [action |-> FINISH, final_response |-> Str(candidate)]

_parse_plan(text) == DecodeCandidate(Candidate(text))

\* --------------------------------------------------------- tool registry
ToolNames == {"shell", "python", "tavily", "document", "neo4j"}

\* The capability each create_*_tool() returns, by registry key.
Capability(name) ==
    CASE name = "shell"    -> "run_shell"
      [] name = "python"   -> "run_python"
      [] name = "tavily"   -> "tavily_search"
      [] name = "document" -> "generate_document"
      [] name = "neo4j"    -> "run_neo4j_query"

\* _initialise_tools: include maps each name to its include_* flag, available is
\* the set of optional tools whose construction does not raise its own error.
_initialise_tools(include, available) ==
    LET names == {n \in ToolNames :
                     /\ include[n]
                     /\ (n \in {"tavily", "neo4j"} => n \in available)}
    IN [k \in {Str(<<n>>) : n \in names} |-> Capability(k.s[1])]

\* The builds enumerated: python, tavily and document switched off (as the
\* repository's tests do), shell and neo4j either way, neo4j configured or not.
BuildFlags ==
    {[n \in ToolNames |-> CASE n = "shell" -> sh [] n = "neo4j" -> neo [] OTHER -> FALSE] :
        sh \in BOOLEAN, neo \in BOOLEAN}
Availability == {{}, {"neo4j"}}
Budgets == 0..MaxBudget

\* ------------------------------------------------------------- the build
\* What load_secrets() finds on disk.
SecretsFiles == {"missing", "malformed", "no_neo4j", "neo4j"}

\* load_secrets(): the neo4j entry of the Secrets it returns, or the error it
\* raises (tomllib.load on a malformed file; discover_secrets_path on none).
load_secrets(file) ==
    CASE file = "missing"   -> [raises |-> "FileNotFoundError", neo4j |-> "none"]
      [] file = "malformed" -> [raises |-> "TOMLDecodeError", neo4j |-> "none"]
      [] file = "no_neo4j"  -> [raises |-> "none", neo4j |-> "none"]
      [] file = "neo4j"     -> [raises |-> "none", neo4j |-> "config"]

\* Neo4jClient._load_config_from_secrets; secrets is the constructor argument:
\* "none", or a Secrets "with_neo4j" or "without_neo4j".
_load_config_from_secrets(secrets, file) ==
    LET loaded == IF secrets = "none" THEN load_secrets(file)
                  ELSE [raises |-> "none",
                        neo4j |-> IF secrets = "with_neo4j" THEN "config" ELSE "none"]
    IN IF loaded.raises = "FileNotFoundError" THEN "Neo4jToolError"
       ELSE IF loaded.raises # "none" THEN loaded.raises
       ELSE IF loaded.neo4j = "none" THEN "Neo4jToolError"
       ELSE "none"

\* A constructor that looks for credentials before it looks at the driver.
Neo4jClientLoadsFirst(config, secrets, driver, file, driver_ok) ==
    IF config = "none" /\ _load_config_from_secrets(secrets, file) # "none"
    THEN [raises |-> _load_config_from_secrets(secrets, file), client |-> FALSE,
          loads |-> TRUE]
    ELSE IF driver # "none" THEN [raises |-> "none", client |-> TRUE, loads |-> config = "none"]
    ELSE IF ~driver_ok THEN [raises |-> "Neo4jToolError", client |-> FALSE,
                             loads |-> config = "none"]
    ELSE [raises |-> "none", client |-> TRUE, loads |-> config = "none"]

\* Neo4jClient(config, secrets, driver).__post_init__: the error it raises, whether
\* a client comes out, and whether _load_config_from_secrets was called.
\* driver_ok: GraphDatabase.driver returns (else it raises).
Neo4jClient(config, secrets, driver, file, driver_ok) ==
    IF driver # "none" THEN [raises |-> "none", client |-> TRUE, loads |-> FALSE]
    ELSE IF config = "none" /\ _load_config_from_secrets(secrets, file) # "none"
    THEN [raises |-> _load_config_from_secrets(secrets, file), client |-> FALSE,
          loads |-> TRUE]
    ELSE IF ~driver_ok THEN [raises |-> "Neo4jToolError", client |-> FALSE,
                             loads |-> config = "none"]
    ELSE [raises |-> "none", client |-> TRUE, loads |-> config = "none"]

\* create_neo4j_tool(): Neo4jClient() with no argument.
create_neo4j_tool(file, driver_ok) ==
    Neo4jClient("none", "none", "none", file, driver_ok).raises

\* TavilySearchClient(): it returns, or raises TavilySearchError when the
\* service is not configured.
TavilyProbes == {"ok", "TavilySearchError"}

\* The error that leaves _initialise_tools, "none" if it returns: only
\* TavilySearchError and Neo4jToolError are caught.
_initialise_tools_raises(include, tavily, neo4j) ==
    IF include["tavily"] /\ tavily \notin {"ok", "TavilySearchError"} THEN tavily
    ELSE IF include["neo4j"] /\ neo4j \notin {"none", "Neo4jToolError"} THEN neo4j
    ELSE "none"

\* The optional tools whose construction returned.
AvailableTools(tavily, neo4j) ==
    {n \in {"tavily"} : tavily = "ok"} \cup {n \in {"neo4j"} : neo4j = "none"}

SUPPORTED_ENGINES == {<<"langgraph">>, <<"deepagents">>}

\* An engine test that forgets lower().
EngineChoiceCaseSensitive(engine) == Strip(engine)

\* engine.lower().strip()
EngineChoice(engine) == Strip(LowerAll(engine))

\* _require_chat_model: the error it raises, if any.
_require_chat_model(llm) == IF llm = "chat_model" THEN "none" ELSE "ValueError: llm"

\* build_workspace_deep_agent: the error it raises ("none" if it returns) and
\* the handle it returns.
BuildOutcome(b) ==
    LET neo4j == create_neo4j_tool(b.file, b.driver_ok)
        failed == _initialise_tools_raises(b.include, b.tavily, neo4j)
        registry == _initialise_tools(b.include, AvailableTools(b.tavily, neo4j))
        choice == EngineChoice(b.engine)
    IN IF failed # "none"
       THEN [raises |-> failed, handle |-> "none", registry |-> <<>>]
       ELSE IF choice \notin SUPPORTED_ENGINES
       THEN [raises |-> "ValueError: engine", handle |-> "none", registry |-> <<>>]
       ELSE IF choice = <<"deepagents">> /\ _require_chat_model(b.llm) # "none"
       THEN [raises |-> _require_chat_model(b.llm), handle |-> "none", registry |-> <<>>]
       ELSE [raises |-> "none", handle |-> choice[1], registry |-> registry]

\* ----------------------------------------------------------- plan_node parts
\* A lookup with no default: a missing action is None.
DecidedActionNoDefault(p) == Get(p, "action", PyNone)

\* plan.get("action", "finish")
DecidedAction(p) == Get(p, "action", FINISH)

\* A membership test that lets every action through.
IsAllowedAlways(a, registry) == TRUE

\* action in {*tools.keys(), "finish"}
IsAllowed(a, registry) == a \in (DOMAIN registry) \cup {FINISH}

UnsupportedMessage(a) ==
    Str(<<"Unsupported action ">> \o a.s \o <<". Provide the best possible summary instead.">>)

\* A validation that leaves the decided action as it is.
ValidatedActionUnchanged(p, registry) == DecidedAction(p)

\* The action after validation.
ValidatedAction(p, registry) ==
    IF IsAllowed(DecidedAction(p), registry) THEN DecidedAction(p) ELSE FINISH

\* A record that keeps the name the planner gave.
RecordedActionOriginal(p, registry) == DecidedAction(p)

\* The action named in the AIMessage: the local `action`, after validation.
RecordedAction(p, registry) == ValidatedAction(p, registry)

\* The plan after validation: a rejected action gets a final_response.
ValidatedPlan(p, registry) ==
    IF IsAllowed(DecidedAction(p), registry) THEN p
    ELSE Put(p, "final_response",
             Or(Get(p, "final_response", PyNone), UnsupportedMessage(Get(p, "action", PyNone))))

\* plan.get("thought") or response_text
Thought(p, response) == Or(Get(p, "thought", PyNone), Str(response))

\* A termination check that forgets the iteration budget.
FinishesIgnoringBudget(a, n, budget) == a = FINISH

\* A termination check that looks at the budget only.
FinishesOnlyOnBudget(a, n, budget) == n >= budget

\* action == "finish" or iterations >= config.max_iterations
Finishes(a, n, budget) == a = FINISH \/ n >= budget

\* A final_text that takes the first field that is there, empty or not.
FinalTextFirstPresent(p, th) ==
    IF Get(p, "final_response", PyNone) # PyNone THEN Get(p, "final_response", PyNone)
    ELSE IF Get(p, "message", PyNone) # PyNone THEN Get(p, "message", PyNone)
    ELSE IF Get(p, "input", PyNone) # PyNone THEN Get(p, "input", PyNone)
    ELSE th

\* The final_text of a finishing plan step, before str().
FinalText(p, th) ==
    LET final_text == Get(p, "final_response", PyNone)
    IN IF ~Truthy(final_text)
       THEN Or(Get(p, "message", PyNone), Or(Get(p, "input", PyNone), th))
       ELSE final_text

\* A counter that starts again from the default on every plan step.
IterationsFromDefault(n) == 0 + 1

\* state.get("iterations", 0) + 1
IterationsAfter(n) == n + 1

\* A step that starts its list of messages afresh.
HistoryFresh(msgs) == <<>>

\* list(state.get("messages", []))
HistoryCopy(msgs) == msgs

\* A step that appends to the list it was handed: from the first step on the
\* state's list is the caller's list.
CallerListAliased(caller, msgs, m) == Append(msgs, m)

\* What the caller's list is after messages.append(m): the step appended to
\* its own copy.
CallerListAfter(caller, msgs, m) == caller

AIMessage(th, a) ==
    [type |-> "ai", content |-> <<"Thought: ">> \o th.s \o <<"\nAction: ">> \o a.s,
     name |-> <<>>]
ToolMessage(content, a) == [type |-> "tool", content |-> content, name |-> a.s]
HumanMessage(content) == [type |-> "human", content |-> content, name |-> <<>>]

\* ------------------------------------------------------------ act_node parts
\* A guard that only takes None for "nothing pending".
NoPendingActionNoneOnly(a) == a = PyNone

\* not action
NoPendingAction(a) == ~Truthy(a)

\* A lookup that takes the entry out of the registry (tools.pop(action, None)).
RegistryAfterPop(registry, a) == [k \in (DOMAIN registry) \ {a} |-> registry[k]]

\* tools.get(action) leaves the registry as it is.
RegistryAfterGet(registry, a) == registry

\* A normalisation that hands None on as it is.
NormaliseKeepsNone(action_input) ==
    IF action_input.t \in {"dict", "mapping"} THEN PyDict(action_input.s)
    ELSE action_input

\* A Mapping that is no dict (what a caller may put into the state).
PyMapping(s) == [t |-> "mapping", s |-> s]

_normalise_tool_input(action_input) ==
    IF action_input.t = "none" THEN PyDict(<<"{}">>)
    ELSE IF action_input.t = "str" THEN action_input
    ELSE IF action_input.t \in {"dict", "mapping"} THEN PyDict(action_input.s)
    ELSE action_input

\* What tool.invoke does: it returns a value or raises an Exception.
ToolOutcomes ==
    {[raises |-> FALSE, value |-> v] :
        v \in {Str(<<"ok">>), Str(<<>>), PyDict(<<"{status: success}">>),
               [t |-> "object", s |-> <<"<object>">>],
               [t |-> "cyclic", s |-> <<"{...}">>]}}
    \cup {[raises |-> TRUE, value |-> Str(<<"boom">>)]}

\* json.dumps(result, ensure_ascii=False, indent=2): the error it raises, if any.
JsonDumpsError(result) ==
    CASE result.t = "object" -> "TypeError"
      [] result.t = "cyclic" -> "ValueError"
      [] OTHER               -> "none"
JsonDumps(result) == <<"json.dumps:">> \o result.s

\* _render_observation raises what json.dumps raises other than TypeError.
RenderRaises(result) == result.t # "str" /\ JsonDumpsError(result) = "ValueError"

\* A rendering that always takes str(result).
RenderAlwaysStr(result) == result.s

_render_observation(result) ==
    IF result.t = "str" THEN result.s
    ELSE IF JsonDumpsError(result) = "TypeError" THEN result.s
    ELSE JsonDumps(result)

FallbackObservation(a, exc) ==
    <<"An internal error occurred while running tool ">> \o a.s
        \o <<". Include any partial results and continue.", " Error: ">> \o exc.s

NoToolMessage(a) ==
    Str(<<"No tool named ">> \o a.s \o <<" is available. Summarise progress and stop.">>)

\* -------------------------------------------------------------- router
\* A router that forgets the iteration budget.
RouterIgnoresBudget(a, n, registry, budget) ==
    IF a = FINISH THEN "END"
    ELSE IF a \notin DOMAIN registry THEN "END"
    ELSE "act"

\* A router that lets one more turn through than the budget.
RouterBudgetOffByOne(a, n, registry, budget) ==
    IF a = FINISH \/ n > budget THEN "END"
    ELSE IF a \notin DOMAIN registry THEN "END"
    ELSE "act"

\* _make_plan_router.router: END or "act".
router(a, n, registry, budget) ==
    IF a = FINISH \/ n >= budget THEN "END"
    ELSE IF a \notin DOMAIN registry THEN "END"
    ELSE "act"

\* ------------------------------------------------------- planner outputs
\* What the planner may answer on a turn of a run.
PlannerOutputs ==
    {<<o>> : o \in DOMAIN JsonObject}
    \cup {<<>>, <<" ">>, <<"Sure">>, <<"[1]">>}
    \cup {<<Fence, "json", "\n", "{action:shell,input:ls}", "\n", Fence>>,
          <<Fence, "python", "\n", "{action:finish}", "\n", Fence>>,
          <<"Sure", " ", Fence, "json", "{action:finish}", Fence>>,
          <<Fence, "Sure", Fence>>,
          <<Fence, "JSON", " ",
            "{thought:All done.,action:finish,final_response:Completed task.}", Fence>>}

\* ------------------------------------------------------------------ state
VARIABLES
    pc,                \* where the compiled graph is: plan, route, act, END, ...
    tools,             \* the registry the agent was built with
    max_iterations,    \* config.max_iterations
    messages, iterations, action, action_input, thought,
    last_observation, final_response,      \* WorkspaceAgentState
    response_text,     \* what the planner answered last
    plan,              \* what _parse_plan made of it
    invocation,        \* what the last tool.invoke was handed
    planner_calls,     \* planner.invoke calls so far
    act_calls,         \* act_node calls so far
    act_trace,         \* the branch the last act_node call took, whether it
                       \* returned the state it was handed or a new mapping, and what the
                       \* tool did if it was invoked
    build,             \* the arguments of the build, of Neo4jClient, of the
                       \* command or of a query, and what came of it
    script,            \* what the planner and the capability of this run are
                       \* set to answer, when that is fixed beforehand
    other,             \* a second run on the same compiled graph, while this
                       \* one has the processor
    caller_messages    \* the list the caller put under "messages" in the state
                       \* it handed to agent.invoke, as the caller sees it now

state == <<messages, iterations, action, action_input, thought,
           last_observation, final_response>>
vars == <<pc, tools, max_iterations, state, response_text, plan, invocation,
          planner_calls, act_calls, act_trace, build, script, other, caller_messages>>

NoOutcome == [raises |-> FALSE, value |-> PyNone]

\* No answers fixed beforehand; no second run.
NoScript == [planner |-> <<>>, tool |-> NoOutcome]
NoRun == [pc |-> "none"]

\* The arguments the build is given when nothing is said: every include_* flag
\* True, engine "langgraph", an llm passed in.
DefaultBuild ==
    [include |-> [n \in ToolNames |-> TRUE], file |-> "neo4j", driver_ok |-> TRUE,
     tavily |-> "ok", engine |-> <<"langgraph">>, llm |-> "runnable",
     config |-> "none", secrets |-> "none", driver |-> "none",
     result |-> [raises |-> "none"]]
NoAct ==
    [branch |-> "none", name |-> PyNone, tool |-> "none", outcome |-> NoOutcome,
     returns |-> "none"]

\* build_workspace_deep_agent(...), then agent.invoke of a fresh state.
Init ==
    /\ pc = "plan"
    /\ tools \in {_initialise_tools(f, av) : f \in BuildFlags, av \in Availability}
    /\ max_iterations \in Budgets
    /\ messages = <<HumanMessage(<<"Test task">>)>>
    /\ iterations = 0
    /\ action = PyNone
    /\ action_input = PyNone
    /\ thought = PyNone
    /\ last_observation = PyNone
    /\ final_response = PyNone
    /\ response_text = <<>>
    /\ plan = <<>>
    /\ invocation = PyNone
    /\ planner_calls = 0
    /\ act_calls = 0
    /\ act_trace = NoAct
    /\ build = DefaultBuild
    /\ script = NoScript
    /\ other = NoRun
    /\ caller_messages = messages

\* A planner failure that is still counted as a turn.
planner_raises_counted ==
    /\ pc = "plan"
    /\ pc' = "planner_failed"
    /\ planner_calls' = planner_calls + 1
    /\ iterations' = iterations + 1
    /\ UNCHANGED <<tools, max_iterations, messages, action, action_input, thought,
                   last_observation, final_response, response_text, plan,
                   invocation, act_calls, act_trace, build, script, other, caller_messages>>

\* planner.invoke raises: plan_node raises, the run ends with that error.
planner_raises ==
    /\ pc = "plan"
    /\ pc' = "planner_failed"
    /\ planner_calls' = planner_calls + 1
    /\ UNCHANGED <<tools, max_iterations, state, response_text, plan, invocation,
                   act_calls, act_trace, build, script, other, caller_messages>>

\* plan_node with the planner answering.
plan_node ==
    /\ pc = "plan"
    /\ \E response \in PlannerOutputs :
         LET parsed == _parse_plan(response)
             n == IterationsAfter(iterations)
             a == ValidatedAction(parsed, tools)
             p == ValidatedPlan(parsed, tools)
             th == Thought(parsed, response)
         IN /\ response_text' = response
            /\ planner_calls' = planner_calls + 1
            /\ IF ~Hashable(DecidedAction(parsed))
               THEN \* the membership test raises TypeError
                    /\ pc' = "plan_raised"
                    /\ plan' = parsed
                    /\ UNCHANGED <<state, caller_messages>>
               ELSE /\ pc' = "route"
                    /\ plan' = p
                    /\ messages' = Append(HistoryCopy(messages),
                                         AIMessage(th, RecordedAction(parsed, tools)))
                    /\ caller_messages' =
                          CallerListAfter(caller_messages, messages,
                                          AIMessage(th, RecordedAction(parsed, tools)))
                    /\ iterations' = n
                    /\ action' = a
                    /\ action_input' = Get(parsed, "input", PyNone)
                    /\ thought' = th
                    /\ final_response' =
                          IF Finishes(a, n, max_iterations)
                          THEN PyStr(FinalText(p, th))
                          ELSE final_response
                    /\ UNCHANGED last_observation
    /\ UNCHANGED <<tools, max_iterations, invocation, act_calls, act_trace, build,
                   script, other>>

\* The conditional edge out of plan.
route ==
    /\ pc = "route"
    /\ pc' = router(action, iterations, tools, max_iterations)
    /\ UNCHANGED <<tools, max_iterations, state, response_text, plan, invocation,
                   planner_calls, act_calls, act_trace, build, script, other, caller_messages>>

\* act_node, then the edge act -> plan.
act_node ==
    /\ pc = "act"
    /\ act_calls' = act_calls + 1
    /\ IF NoPendingAction(action)
       THEN /\ pc' = "plan"
            /\ act_trace' = [branch |-> "noop", name |-> action, tool |-> "none",
                             outcome |-> NoOutcome, returns |-> "state"]
            /\ UNCHANGED <<state, invocation, tools, caller_messages>>
       ELSE IF action \notin DOMAIN tools
       THEN /\ pc' = "plan"
            /\ act_trace' = [branch |-> "missing", name |-> action, tool |-> "none",
                             outcome |-> NoOutcome, returns |-> "new"]
            /\ tools' = RegistryAfterGet(tools, action)
            /\ final_response' = NoToolMessage(action)
            /\ action' = FINISH
            /\ UNCHANGED <<messages, iterations, action_input, thought,
                           last_observation, invocation, caller_messages>>
       ELSE \E outcome \in ToolOutcomes :
              /\ invocation' = _normalise_tool_input(action_input)
              /\ act_trace' = [branch |-> "invoked", name |-> action,
                               tool |-> tools[action], outcome |-> outcome,
                               returns |-> IF ~outcome.raises
                                              /\ RenderRaises(outcome.value)
                                           THEN "none" ELSE "new"]
              /\ tools' = RegistryAfterGet(tools, action)
              /\ IF ~outcome.raises /\ RenderRaises(outcome.value)
                 THEN /\ pc' = "act_raised"
                      /\ UNCHANGED <<state, caller_messages>>
                 ELSE LET observation ==
                              IF outcome.raises
                              THEN FallbackObservation(action, outcome.value)
                              ELSE _render_observation(outcome.value)
                      IN /\ pc' = "plan"
                         /\ messages' = Append(HistoryCopy(messages),
                                              ToolMessage(observation, action))
                         /\ caller_messages' =
                               CallerListAfter(caller_messages, messages,
                                               ToolMessage(observation, action))
                         /\ action' = PyNone
                         /\ action_input' = PyNone
                         /\ last_observation' = Str(observation)
                         /\ UNCHANGED <<iterations, thought, final_response>>
    /\ UNCHANGED <<max_iterations, response_text, plan, planner_calls, build,
                   script, other>>

Next == planner_raises \/ plan_node \/ route \/ act_node

Spec == Init /\ [][Next]_vars

\* The run with the graph runtime taking every step it can take.
FairSpec == Spec /\ WF_vars(Next)

\* ------------------------------------------------- act_node entered directly
\* act_node handed a state of the caller's making (the compiled graph enters
\* act only through router), followed by the graph's edge act -> plan.
ActInit ==
    /\ pc = "act"
    /\ tools \in {_initialise_tools(f, av) : f \in BuildFlags, av \in Availability}
    /\ max_iterations \in 1..2
    /\ messages = <<HumanMessage(<<"Test task">>)>>
    /\ iterations = 0
    /\ action \in {PyNone, Str(<<>>), FINISH, Str(<<"shell">>), Str(<<"search">>)}
    /\ action_input \in {PyNone, Str(<<"ls">>), PyDict(<<"{command: ls}">>),
                        PyMapping(<<"{command: ls}">>), PyList(<<"[ls]">>)}
    /\ thought = PyNone
    /\ last_observation = PyNone
    /\ final_response = PyNone
    /\ response_text = <<>>
    /\ plan = <<>>
    /\ invocation = PyNone
    /\ planner_calls = 0
    /\ act_calls = 0
    /\ act_trace = NoAct
    /\ build = DefaultBuild
    /\ script = NoScript
    /\ other = NoRun
    /\ caller_messages = messages

ActSpec == ActInit /\ [][Next]_vars

\* ------------------------------------------------------------ the build
AllFlags == [ToolNames -> BOOLEAN]
EngineSelectors ==
    {<<"langgraph">>, <<"deepagents">>, <<" ", "LangGraph", "\n">>, <<"DEEPAGENTS">>,
     <<"autogen">>, <<>>}

\* The builds enumerated: every combination of include_* flags with every
\* state of the secrets file and of the two probes, under the default engine;
\* every engine selector and llm with the default flags and a secrets file
\* that is in order or malformed; and every way of
\* constructing a Neo4jClient on its own.
BuildInit ==
    /\ \/ /\ pc = "build"
          /\ max_iterations = 1
          /\ build \in {[DefaultBuild EXCEPT !.include = f, !.file = file,
                                             !.driver_ok = ok, !.tavily = tav] :
                            f \in AllFlags, file \in SecretsFiles, ok \in BOOLEAN,
                            tav \in TavilyProbes}
       \/ /\ pc = "build"
          /\ max_iterations = 2
          /\ build \in {[DefaultBuild EXCEPT !.engine = e, !.llm = llm, !.file = file] :
                            e \in EngineSelectors, llm \in {"runnable", "chat_model"},
                            file \in {"neo4j", "malformed"}}
       \/ /\ pc = "construct"
          /\ max_iterations = 1
          /\ build \in {[DefaultBuild EXCEPT !.file = file, !.driver_ok = ok,
                                             !.config = c, !.secrets = sec,
                                             !.driver = d] :
                            file \in SecretsFiles, ok \in BOOLEAN,
                            c \in {"none", "config"},
                            sec \in {"none", "with_neo4j", "without_neo4j"},
                            d \in {"none", "driver"}}
    /\ tools = <<>>
    /\ messages = <<HumanMessage(<<"Test task">>)>>
    /\ iterations = 0
    /\ action = PyNone
    /\ action_input = PyNone
    /\ thought = PyNone
    /\ last_observation = PyNone
    /\ final_response = PyNone
    /\ response_text = <<>>
    /\ plan = <<>>
    /\ invocation = PyNone
    /\ planner_calls = 0
    /\ act_calls = 0
    /\ act_trace = NoAct
    /\ script = NoScript
    /\ other = NoRun
    /\ caller_messages = messages

\* build_workspace_deep_agent(...); a langgraph handle is then invoked with a
\* fresh state.
build_workspace_deep_agent ==
    /\ pc = "build"
    /\ LET outcome == BuildOutcome(build)
       IN /\ build' = [build EXCEPT !.result = outcome]
          /\ tools' = outcome.registry
          /\ pc' = CASE outcome.raises # "none"        -> "build_failed"
                     [] outcome.handle = "deepagents"  -> "deepagents"
                     [] OTHER                          -> "plan"
    /\ UNCHANGED <<max_iterations, state, response_text, plan, invocation,
                   planner_calls, act_calls, act_trace, script, other, caller_messages>>

\* Neo4jClient(config=..., secrets=..., driver=...)
construct_neo4j_client ==
    /\ pc = "construct"
    /\ build' = [build EXCEPT !.result =
                     Neo4jClient(build.config, build.secrets, build.driver,
                                 build.file, build.driver_ok)]
    /\ pc' = "constructed"
    /\ UNCHANGED <<tools, max_iterations, state, response_text, plan, invocation,
                   planner_calls, act_calls, act_trace, script, other, caller_messages>>

BuildNext == build_workspace_deep_agent \/ construct_neo4j_client \/ Next

BuildSpec == BuildInit /\ [][BuildNext]_vars

\* ---------------------------------------------------- the parser on its own
\* Texts the parser is applied to: every short text over ParserAlphabet, and
\* every JSON object of JsonObject wrapped in a fenced block.
ParserAlphabet ==
    {" ", Fence, "json", "JSON", "python", "Sure", "[1]",
     "{action:finish}", "{action:shell,input:ls}"}
JsonTags == {"json", "JSON", "Json"}
OtherTags == {"python"}
Separators == {<<>>, <<"\n">>, <<" ">>}
Wrap(tag, sep, o) == <<Fence, tag>> \o sep \o <<o>> \o sep \o <<Fence>>
WrappedTexts(tags) ==
    {Wrap(tag, sep, o) : tag \in tags, sep \in Separators, o \in DOMAIN JsonObject}
\* The same fenced blocks with prose in front of the opening fence.
PrefacedTexts == {<<"Sure", " ">> \o w : w \in WrappedTexts({"json"})}
ParserInputs ==
    UNION {[1..k -> ParserAlphabet] : k \in 0..MaxTextLen}
    \cup WrappedTexts(JsonTags \cup OtherTags)
    \cup PrefacedTexts

ParseInit ==
    /\ pc = "parse"
    /\ response_text \in ParserInputs
    /\ plan = <<>>
    /\ tools = _initialise_tools([n \in ToolNames |-> FALSE], {})
    /\ max_iterations = 0
    /\ messages = <<>>
    /\ iterations = 0
    /\ action = PyNone
    /\ action_input = PyNone
    /\ thought = PyNone
    /\ last_observation = PyNone
    /\ final_response = PyNone
    /\ invocation = PyNone
    /\ planner_calls = 0
    /\ act_calls = 0
    /\ act_trace = NoAct
    /\ build = DefaultBuild
    /\ script = NoScript
    /\ other = NoRun
    /\ caller_messages = messages

\* ------------------------------------------- two runs on one compiled graph
\* agent.invoke(...) called twice on the handle of one build: both runs go
\* through the same plan_node, router and act_node closures, hence the same
\* tools mapping; each has its own state mapping. The runs take turns node by
\* node.
PairRegistry == _initialise_tools([n \in ToolNames |-> n = "shell"], {})

\* What a run's planner and capability are set to answer: the planner its
\* answers in order, raising once they are used up (as the tests' StubPlanner
\* does), the capability one outcome.
PairPlannerOutputs ==
    {<<"{action:shell,input:ls}">>,
     <<"{action:finish,final_response:done,input:i}">>,
     <<"{action:[shell]}">>}
PairToolOutcomes ==
    {[raises |-> FALSE, value |-> Str(<<"ok">>)],
     [raises |-> FALSE, value |-> [t |-> "cyclic", s |-> <<"{...}">>]],
     [raises |-> TRUE, value |-> Str(<<"boom">>)]}
PairScripts ==
    {[planner |-> p, tool |-> o] :
        p \in {<<>>} \cup {<<a>> : a \in PairPlannerOutputs}
                     \cup {<<a, b>> : a, b \in PairPlannerOutputs},
        o \in PairToolOutcomes}

\* A run before its first node, and the run that has the processor.
FreshRun(sc) ==
    [pc |-> "plan", messages |-> <<HumanMessage(<<"Test task">>)>>,
     iterations |-> 0, action |-> PyNone, action_input |-> PyNone,
     thought |-> PyNone, last_observation |-> PyNone, final_response |-> PyNone,
     response_text |-> <<>>, plan |-> <<>>, invocation |-> PyNone,
     planner_calls |-> 0, act_calls |-> 0, act_trace |-> NoAct, script |-> sc]
ThisRun ==
    [pc |-> pc, messages |-> messages, iterations |-> iterations,
     action |-> action, action_input |-> action_input, thought |-> thought,
     last_observation |-> last_observation, final_response |-> final_response,
     response_text |-> response_text, plan |-> plan, invocation |-> invocation,
     planner_calls |-> planner_calls, act_calls |-> act_calls,
     act_trace |-> act_trace, script |-> script]

PairInit ==
    /\ tools = PairRegistry
    /\ max_iterations = 2
    /\ build = DefaultBuild
    /\ \E sc \in PairScripts :
         /\ script = sc
         /\ pc = FreshRun(sc).pc
         /\ messages = FreshRun(sc).messages
         /\ iterations = FreshRun(sc).iterations
         /\ action = FreshRun(sc).action
         /\ action_input = FreshRun(sc).action_input
         /\ thought = FreshRun(sc).thought
         /\ last_observation = FreshRun(sc).last_observation
         /\ final_response = FreshRun(sc).final_response
         /\ response_text = FreshRun(sc).response_text
         /\ plan = FreshRun(sc).plan
         /\ invocation = FreshRun(sc).invocation
         /\ planner_calls = FreshRun(sc).planner_calls
         /\ act_calls = FreshRun(sc).act_calls
         /\ act_trace = FreshRun(sc).act_trace
    /\ other \in {FreshRun(sc) : sc \in PairScripts}
    /\ caller_messages = FreshRun(NoScript).messages

\* The nodes of the run that has the processor, its planner and capability
\* answering as set.
pair_planner_raises ==
    /\ planner_calls >= Len(script.planner)
    /\ planner_raises
pair_plan_node ==
    /\ planner_calls < Len(script.planner)
    /\ plan_node
    /\ response_text' = script.planner[planner_calls + 1]
pair_act_node ==
    /\ act_node
    /\ act_trace'.branch = "invoked" => act_trace'.outcome = script.tool

\* The other run gets the processor; the registry is the one both share.
switch ==
    /\ other.pc # "none"
    /\ other' = ThisRun
    /\ pc' = other.pc
    /\ messages' = other.messages
    /\ iterations' = other.iterations
    /\ action' = other.action
    /\ action_input' = other.action_input
    /\ thought' = other.thought
    /\ last_observation' = other.last_observation
    /\ final_response' = other.final_response
    /\ response_text' = other.response_text
    /\ plan' = other.plan
    /\ invocation' = other.invocation
    /\ planner_calls' = other.planner_calls
    /\ act_calls' = other.act_calls
    /\ act_trace' = other.act_trace
    /\ script' = other.script
    /\ UNCHANGED <<tools, max_iterations, build, caller_messages>>

PairNext == pair_planner_raises \/ pair_plan_node \/ route \/ pair_act_node \/ switch

PairSpec == PairInit /\ [][PairNext]_vars

\* The same run with the graph to itself: plan_node, the router and act_node
\* applied in turn to the run's own state until the graph stops.
PlanResult(r, response, registry, budget) ==
    LET parsed == _parse_plan(response)
        n == IterationsAfter(r.iterations)
        a == ValidatedAction(parsed, registry)
        p == ValidatedPlan(parsed, registry)
        th == Thought(parsed, response)
    IN IF ~Hashable(DecidedAction(parsed))
       THEN [r EXCEPT !.pc = "plan_raised", !.planner_calls = @ + 1]
       ELSE [r EXCEPT !.pc = "route", !.planner_calls = @ + 1,
                      !.messages = Append(HistoryCopy(@),
                                          AIMessage(th, RecordedAction(parsed, registry))),
                      !.iterations = n, !.action = a,
                      !.action_input = Get(parsed, "input", PyNone),
                      !.thought = th,
                      !.final_response = IF Finishes(a, n, budget)
                                         THEN PyStr(FinalText(p, th))
                                         ELSE @]
ActResult(r, outcome, registry) ==
    IF NoPendingAction(r.action)
    THEN [r EXCEPT !.pc = "plan", !.act_calls = @ + 1]
    ELSE IF r.action \notin DOMAIN registry
    THEN [r EXCEPT !.pc = "plan", !.act_calls = @ + 1,
                   !.final_response = NoToolMessage(r.action), !.action = FINISH]
    ELSE IF ~outcome.raises /\ RenderRaises(outcome.value)
    THEN [r EXCEPT !.pc = "act_raised", !.act_calls = @ + 1]
    ELSE LET observation == IF outcome.raises
                            THEN FallbackObservation(r.action, outcome.value)
                            ELSE _render_observation(outcome.value)
         IN [r EXCEPT !.pc = "plan", !.act_calls = @ + 1,
                      !.messages = Append(HistoryCopy(@),
                                          ToolMessage(observation, r.action)),
                      !.action = PyNone, !.action_input = PyNone,
                      !.last_observation = Str(observation)]
RECURSIVE RunAlone(_, _, _)
RunAlone(r, registry, budget) ==
    CASE r.pc = "plan" ->
           IF r.planner_calls >= Len(r.script.planner)
           THEN [r EXCEPT !.pc = "planner_failed", !.planner_calls = @ + 1]
           ELSE RunAlone(PlanResult(r, r.script.planner[r.planner_calls + 1],
                                    registry, budget),
                         registry, budget)
      [] r.pc = "route" ->
           RunAlone([r EXCEPT !.pc = router(r.action, r.iterations, registry, budget)],
                    registry, budget)
      [] r.pc = "act" ->
           RunAlone(ActResult(r, r.script.tool, registry), registry, budget)
      [] OTHER -> r

\* Where a run has stopped, and what of a run its caller gets to see: how it
\* stopped and the state mapping.
Terminal(r) == r.pc \in {"END", "planner_failed", "plan_raised", "act_raised"}
Visible(r) ==
    [pc |-> r.pc, messages |-> r.messages, iterations |-> r.iterations,
     action |-> r.action, action_input |-> r.action_input, thought |-> r.thought,
     last_observation |-> r.last_observation, final_response |-> r.final_response,
     planner_calls |-> r.planner_calls, act_calls |-> r.act_calls]

\* ------------------------------------------------------ Neo4jClient.execute
_OPERATION_ACCESS ==
    ("create" :> "WRITE_ACCESS") @@ ("update" :> "WRITE_ACCESS")
        @@ ("delete" :> "WRITE_ACCESS") @@ ("read" :> "READ_ACCESS")

\* An operation check that forgets lower().
AccessModeCaseSensitive(operation) ==
    LET op == Strip(Or(operation, Str(<<"read">>)).s)
    IN IF Len(op) = 1 /\ op[1] \in DOMAIN _OPERATION_ACCESS
       THEN [raises |-> "none", mode |-> _OPERATION_ACCESS[op[1]], op |-> op]
       ELSE [raises |-> "Neo4jToolError", mode |-> "none", op |-> op]

\* _access_mode_for: (operation or "read").strip().lower(), looked up in
\* _OPERATION_ACCESS.
_access_mode_for(operation) ==
    LET op == LowerAll(Strip(Or(operation, Str(<<"read">>)).s))
    IN IF Len(op) = 1 /\ op[1] \in DOMAIN _OPERATION_ACCESS
       THEN [raises |-> "none", mode |-> _OPERATION_ACCESS[op[1]], op |-> op]
       ELSE [raises |-> "Neo4jToolError", mode |-> "none", op |-> op]

\* What happens inside `with driver.session(...)`: it goes through, or one of
\* session(), run(), data() and consume() raises.
SessionOutcomes == {"ok", "Neo4jError", "Exception", "Neo4jToolError"}

\* The except clauses around the session.
SessionRaises(exc) ==
    CASE exc = "ok"             -> "none"
      [] exc = "Neo4jToolError" -> "Neo4jToolError"
      [] exc = "Neo4jError"     -> "Neo4jToolError"
      [] OTHER                  -> "Neo4jToolError"

\* execute(statement, operation=...) on a client that has its driver: what it
\* raises, how many sessions it opened, and the payload it returns.
execute(statement, operation, session) ==
    LET stmt == Strip(statement)
        access == _access_mode_for(operation)
    IN IF stmt = <<>>
       THEN [raises |-> "Neo4jToolError", sessions |-> 0, mode |-> "none",
             payload |-> "none"]
       ELSE IF access.raises # "none"
       THEN [raises |-> access.raises, sessions |-> 0, mode |-> "none",
             payload |-> "none"]
       ELSE [raises |-> SessionRaises(session), sessions |-> 1, mode |-> access.mode,
             payload |-> IF SessionRaises(session) = "none"
                         THEN access.op[1] ELSE "none"]

\* run_neo4j_query: the tool body around neo4j_client.execute.
run_neo4j_query(statement, operation, session) ==
    LET result == execute(statement, operation, session)
    IN IF result.raises = "Neo4jToolError"
       THEN [raises |-> "none", sessions |-> result.sessions, status |-> "error"]
       ELSE IF result.raises # "none"
       THEN [raises |-> result.raises, sessions |-> result.sessions, status |-> "none"]
       ELSE [raises |-> "none", sessions |-> result.sessions, status |-> "success"]

\* The statements and operations handed in.
Statements == {<<>>, <<" ", "\n">>, <<"MATCH (n) RETURN n">>,
               <<" ", "MATCH (n) RETURN n", "\n">>}
Operations ==
    {PyNone, Str(<<>>), Str(<<" ">>), Str(<<"read">>), Str(<<" ", "READ", "\n">>),
     Str(<<"Create">>), Str(<<"update">>), Str(<<"delete">>), Str(<<"merge">>),
     Str(<<"reads">>)}

QueryInit ==
    /\ pc \in {"execute", "query"}
    /\ build \in {[statement |-> s, operation |-> o, session |-> x,
                    result |-> [raises |-> "none"]] :
                      s \in Statements, o \in Operations, x \in SessionOutcomes}
    /\ max_iterations = 8
    /\ tools = <<>>
    /\ messages = <<>>
    /\ iterations = 0
    /\ action = PyNone
    /\ action_input = PyNone
    /\ thought = PyNone
    /\ last_observation = PyNone
    /\ final_response = PyNone
    /\ response_text = <<>>
    /\ plan = <<>>
    /\ invocation = PyNone
    /\ planner_calls = 0
    /\ act_calls = 0
    /\ act_trace = NoAct
    /\ script = NoScript
    /\ other = NoRun
    /\ caller_messages = messages

\* client.execute(statement, operation=operation)
client_execute ==
    /\ pc = "execute"
    /\ build' = [build EXCEPT !.result =
                     execute(build.statement, build.operation, build.session)]
    /\ pc' = "executed"
    /\ UNCHANGED <<tools, max_iterations, state, response_text, plan, invocation,
                   planner_calls, act_calls, act_trace, script, other, caller_messages>>

\* The tool made by create_neo4j_tool, called with a statement and an operation.
neo4j_tool_call ==
    /\ pc = "query"
    /\ build' = [build EXCEPT !.result =
                     run_neo4j_query(build.statement, build.operation, build.session)]
    /\ pc' = "queried"
    /\ UNCHANGED <<tools, max_iterations, state, response_text, plan, invocation,
                   planner_calls, act_calls, act_trace, script, other, caller_messages>>

QueryNext == client_execute \/ neo4j_tool_call

QuerySpec == QueryInit /\ [][QueryNext]_vars

\* ------------------------------------------------------ the agents run command
\* The keyword parameters build_workspace_deep_agent declares (it takes no
\* **kwargs), and the keywords agents_run passes to it.
AcceptedKeywords ==
    {"model", "llm", "include_shell", "include_python", "include_tavily",
     "include_document_agent", "include_neo4j", "system_prompt", "max_iterations",
     "engine"}
CliKeywords ==
    {"model", "include_shell", "include_python", "include_tavily",
     "include_dify_knowledge", "include_document_agent", "include_crossref",
     "include_openalex", "system_prompt", "engine"}

\* Binding the keywords of a call to the parameters: an unexpected keyword
\* raises TypeError before the body runs.
CallRaises(keywords, accepted) ==
    IF keywords \subseteq accepted THEN "none" ELSE "TypeError"

\* The include_* flags the command passes (not no_shell, ...); include_neo4j is
\* left at its default.
CliSwitches == {"shell", "python", "tavily", "document"}
CliInclude(no) == [n \in ToolNames |-> IF n \in CliSwitches THEN ~no[n] ELSE TRUE]

\* The command line: any --no-* switches, any --engine, a secrets file that
\* is well-formed or not; the planner comes from ModelRouter, a chat model.
CliInit ==
    /\ pc = "cli"
    /\ build \in {[DefaultBuild EXCEPT !.include = CliInclude(no), !.engine = e,
                                       !.file = file, !.llm = "chat_model"] :
                      no \in [CliSwitches -> BOOLEAN], e \in EngineSelectors,
                      file \in {"neo4j", "malformed"}}
    /\ max_iterations = 8
    /\ tools = <<>>
    /\ messages = <<>>
    /\ iterations = 0
    /\ action = PyNone
    /\ action_input = PyNone
    /\ thought = PyNone
    /\ last_observation = PyNone
    /\ final_response = PyNone
    /\ response_text = <<>>
    /\ plan = <<>>
    /\ invocation = PyNone
    /\ planner_calls = 0
    /\ act_calls = 0
    /\ act_trace = NoAct
    /\ script = NoScript
    /\ other = NoRun
    /\ caller_messages = messages

\* agents_run up to and including agent.invoke(agent_input): the build inside
\* try/except Exception, then the one call of the handle.
agents_run ==
    /\ pc = "cli"
    /\ LET call == CallRaises(CliKeywords, AcceptedKeywords)
           outcome == IF call # "none"
                      THEN [raises |-> call, handle |-> "none", registry |-> <<>>]
                      ELSE BuildOutcome(build)
       IN IF outcome.raises # "none"
          THEN /\ build' = [build EXCEPT !.result =
                                [raises |-> outcome.raises, status |-> "error",
                                 exit_code |-> 1, invoked |-> 0]]
               /\ pc' = "exit"
               /\ UNCHANGED <<tools, state, caller_messages>>
          ELSE /\ build' = [build EXCEPT !.result =
                                [raises |-> "none", status |-> "running",
                                 exit_code |-> 0, invoked |-> 1]]
               /\ tools' = outcome.registry
               /\ pc' = IF outcome.handle = "deepagents" THEN "deepagents" ELSE "plan"
               /\ messages' = <<HumanMessage(<<"Test task">>)>>
               /\ caller_messages' = messages'
               /\ iterations' = 0
               /\ UNCHANGED <<action, action_input, thought, last_observation,
                              final_response>>
    /\ UNCHANGED <<max_iterations, response_text, plan, invocation, planner_calls,
                   act_calls, act_trace, script, other>>

CliSpec == CliInit /\ [][agents_run]_vars

\* --------------------------------------------- runs on a caller's history
\* The histories a caller hands to agent.invoke with iterations 0: none, the
\* task alone (as the CLI does), or an earlier exchange and then the task.
InitialHistories ==
    {<<>>,
     <<HumanMessage(<<"Test task">>)>>,
     <<HumanMessage(<<"Earlier task">>),
       AIMessage(Str(<<"Sure">>), FINISH),
       HumanMessage(<<"Test task">>)>>}

CallerInit ==
    /\ pc = "plan"
    /\ tools = PairRegistry
    /\ max_iterations \in Budgets
    /\ messages \in InitialHistories
    /\ iterations = 0
    /\ action = PyNone
    /\ action_input = PyNone
    /\ thought = PyNone
    /\ last_observation = PyNone
    /\ final_response = PyNone
    /\ response_text = <<>>
    /\ plan = <<>>
    /\ invocation = PyNone
    /\ planner_calls = 0
    /\ act_calls = 0
    /\ act_trace = NoAct
    /\ build = DefaultBuild
    /\ script = NoScript
    /\ other = NoRun
    /\ caller_messages = messages

CallerSpec == CallerInit /\ [][Next]_vars

parse_plan ==
    /\ pc = "parse"
    /\ pc' = "parsed"
    /\ plan' = _parse_plan(response_text)
    /\ UNCHANGED <<tools, max_iterations, state, response_text, invocation,
                   planner_calls, act_calls, act_trace, build, script, other, caller_messages>>

ParseSpec == ParseInit /\ [][parse_plan]_vars

\* ------------------------------------------------------------------ claims
\* What the last plan step's planner output decoded to, before validation.
LastDecision == _parse_plan(response_text)
RouterSaysEnd == router(action, iterations, tools, max_iterations) = "END"

\* C1 (as stated): with max_iterations = N the planner is invoked at most N
\* times, and the Nth plan step ends the run: the router goes to END and
\* final_response is set, whatever action was decided.
C1_BudgetRespectedExactly ==
    pc # "planner_failed" =>
        /\ planner_calls <= max_iterations
        /\ (planner_calls = max_iterations /\ planner_calls >= 1)
              => /\ pc \in {"route", "END"}
                 /\ RouterSaysEnd
                 /\ final_response # PyNone

\* C2 (as stated): iterations never exceeds max_iterations, for every
\* max_iterations the build accepts, and once it has reached max_iterations
\* the planner is not invoked again.
C2_IterationsWithinBudget ==
    /\ iterations <= max_iterations
    /\ (planner_calls >= 1 /\ iterations >= max_iterations) => pc # "plan"

\* C3: final_response is set exactly when the graph has ended: no plan step or
\* act step starts with final_response set, the graph never reaches END with
\* it unset, and the router goes to END exactly when the plan step set it.
C3_FinalAnswerIffTerminal ==
    /\ pc \in {"plan", "act"} => final_response = PyNone
    /\ pc = "END" => final_response # PyNone
    /\ pc = "route" => (final_response # PyNone <=> RouterSaysEnd)
C3_Witness ==
    pc = "END" /\ act_calls >= 1 /\ final_response # PyNone /\ action \in DOMAIN tools

\* C4 (as stated): a run that reaches END has a non-empty final_response
\* string, whatever texts the planner emitted.
C4_TerminalAnswerNonEmpty ==
    pc = "END" => final_response.t = "str" /\ final_response.s # <<>>

\* C5 (as stated): a run whose planner never fails reaches END whatever the
\* planner emits, and it ends only on a finish decision or on the budget.
C5_RunTerminates ==
    /\ <>(pc \in {"END", "planner_failed"})
    /\ [](pc = "END" => action = FINISH \/ iterations >= max_iterations)

\* C6 (as stated): a plan step whose decided action is neither "finish" nor a
\* registry key stores "finish", ends the run on that step, and sets
\* final_response to the decision's own final_response if it has one, else to
\* the message that names the rejected action.
C6_InvalidActionForcedToFinish ==
    (planner_calls >= 1 /\ pc # "planner_failed"
        /\ ~(DecidedAction(LastDecision) \in (DOMAIN tools) \cup {FINISH}))
    => /\ pc \in {"route", "END"}
       /\ action = FINISH
       /\ RouterSaysEnd
       /\ final_response =
             IF Truthy(Get(LastDecision, "final_response", PyNone))
             THEN PyStr(LastDecision.final_response)
             ELSE UnsupportedMessage(DecidedAction(LastDecision))

C8_PendingActionKnown ==
    action = PyNone \/ action = FINISH \/ action \in DOMAIN tools
C8_Witness ==
    /\ pc = "route" /\ action = FINISH
    /\ DecidedAction(LastDecision) \notin (DOMAIN tools) \cup {FINISH}
    /\ \E k \in DOMAIN tools : TRUE

\* C9 (as stated): for a text in which the parser finds no JSON object, fenced
\* or not, _parse_plan returns action "finish" with final_response equal to the
\* whole text, stripped.
C9_FallbackIsTrimmedInput ==
    (pc = "parsed" /\ ~JsonIsMapping(Candidate(response_text)))
    => plan = [action |-> FINISH, final_response |-> Str(Strip(response_text))]

C11_CandidateIsFirstFencedBlock ==
    LET parts == Split(Strip(response_text))
        closed == {i \in DOMAIN parts :
                      i % 2 = 0 /\ i < Len(parts) /\ Strip(parts[i]) # <<>>}
        first == CHOOSE i \in closed : \A j \in closed : i <= j
        block == Strip(parts[first])
        content == IF StartsWithJson(block) THEN Strip(Tail(block)) ELSE block
    IN (pc = "parsed" /\ closed # {}) => plan = DecodeCandidate(content)

\* C12 (as stated): when the invoked capability raises, act_node does not
\* raise: it appends an observation that names the action and carries the
\* error detail, clears the pending action and hands control back to plan;
\* and the run is not aborted afterwards, it ends with a final answer.
C12_FailedCapabilityNeverAborts ==
    (act_trace.branch = "invoked" /\ act_trace.outcome.raises) =>
        /\ pc \notin {"act_raised", "plan_raised"}
        /\ pc = "plan" =>
              LET record == messages[Len(messages)]
              IN /\ record.type = "tool"
                 /\ record.content =
                        FallbackObservation(Str(record.name), act_trace.outcome.value)
                 /\ record.name \in {k.s : k \in DOMAIN tools}
                 /\ action = PyNone
        /\ pc = "END" => final_response # PyNone

\* C13: when planner.invoke raises in a plan step, the run ends with that
\* error (no step follows it, so the planner is called once and not again),
\* and the step leaves the conversation state as it was: iterations, messages
\* and final_response among it.
C13_PlannerFailurePropagates ==
    [][/\ pc # "planner_failed"
       /\ pc' = "planner_failed" =>
             /\ pc = "plan"
             /\ planner_calls' = planner_calls + 1
             /\ UNCHANGED state]_vars
C13_Witness ==
    /\ pc = "planner_failed"
    /\ planner_calls = 2
    /\ act_calls = 1
    /\ iterations = 1
    /\ Len(messages) = 3
    /\ final_response = PyNone

\* C14 (as stated): when a plan step ends the run, final_response is str() of
\* the first value that is there among the decision's final_response, message,
\* input and the reasoning text; a later one is taken only when every earlier
\* one is absent.
C14_FirstPresentCandidate ==
    (pc = "route" /\ Finishes(action, iterations, max_iterations))
    => final_response = PyStr(FinalTextFirstPresent(plan, thought))

\* C14 (amended): when a plan step ends the run, final_response is str() of
\* the first non-empty (truthy) value among the validated decision's
\* final_response, message and input, and of the reasoning text when all three
\* are absent or empty.
C14_FirstNonEmptyCandidate ==
    LET fr == Get(plan, "final_response", PyNone)
        msg == Get(plan, "message", PyNone)
        inp == Get(plan, "input", PyNone)
    IN (pc = "route" /\ Finishes(action, iterations, max_iterations))
       => final_response = PyStr(IF Truthy(fr) THEN fr
                                 ELSE IF Truthy(msg) THEN msg
                                 ELSE IF Truthy(inp) THEN inp
                                 ELSE thought)
C14_Witness ==
    /\ pc = "route"
    /\ Finishes(action, iterations, max_iterations)
    /\ response_text = <<"{action:finish,final_response:(empty),message:m}">>
    /\ final_response = Str(<<"m">>)

\* C15: for every registry and budget, when the planner's first output decodes
\* to an object with action "finish" and a non-empty string final_response X,
\* the plan step is followed by END and by nothing else: final_response is X,
\* iterations is 1, the planner was called once and act_node never.
C15_FinishOnFirstTurn ==
    [][LET d == LastDecision
           X == Get(d, "final_response", PyNone)
       IN (/\ planner_calls = 1
           /\ JsonIsMapping(Candidate(response_text))
           /\ Get(d, "action", PyNone) = FINISH
           /\ X.t = "str" /\ X.s # <<>>)
          => /\ pc = "route" /\ pc' = "END"
             /\ final_response = X
             /\ iterations = 1
             /\ act_calls = 0
             /\ UNCHANGED <<state, planner_calls, act_calls>>]_vars
C15_Witness ==
    /\ pc = "END"
    /\ response_text = <<"{thought:All done.,action:finish,final_response:Completed task.}">>
    /\ final_response = Str(<<"Completed task.">>)
    /\ iterations = 1
    /\ planner_calls = 1
    /\ act_calls = 0
    /\ DOMAIN tools # {}
    /\ max_iterations = MaxBudget

C17_ControllerTransitions ==
    [][/\ pc = "route" =>
             pc' = IF \/ action = FINISH
                      \/ iterations >= max_iterations
                      \/ action \notin DOMAIN tools
                   THEN "END" ELSE "act"
       /\ pc = "act" =>
             /\ action \in DOMAIN tools
             /\ action # FINISH
             /\ iterations < max_iterations
             /\ pc' \in {"plan", "act_raised"}
       /\ pc' = "act" => pc = "route"
       /\ pc' = "END" => pc = "route"
       /\ pc' = "route" => pc = "plan"]_vars
C17_Witness ==
    /\ pc = "act"
    /\ act_calls = 1
    /\ iterations = 2
    /\ max_iterations = 3
    /\ action = Str(<<"neo4j">>)

C19_InvokingActAppendsObservation ==
    [][(pc = "act" /\ act_trace'.branch = "invoked") =>
          /\ Len(messages') = Len(messages) + 1
          /\ SubSeq(messages', 1, Len(messages)) = messages
          /\ messages'[Len(messages')].type = "tool"
          /\ messages'[Len(messages')].name = action.s
          /\ action' = PyNone
          /\ action_input' = PyNone
          /\ last_observation' = Str(messages'[Len(messages')].content)]_vars

\* C20: when act_node is entered with no pending action (None or an empty
\* string), it invokes no capability and returns the conversation state
\* unchanged in every field.
C20_NoPendingActionChangesNothing ==
    [][(pc = "act" /\ (action = PyNone \/ action = Str(<<>>))) =>
          /\ UNCHANGED state
          /\ invocation' = invocation
          /\ act_trace'.branch = "noop"
          /\ act_trace'.outcome = NoOutcome]_vars
C20_Witness ==
    /\ pc = "plan"
    /\ act_trace.branch = "noop"
    /\ act_calls = 1
    /\ planner_calls = 0
    /\ action = Str(<<>>)
    /\ action_input = Str(<<"ls">>)
    /\ Len(messages) = 1
    /\ final_response = PyNone
    /\ invocation = PyNone

\* C21 (as stated): the build never fails because an optional capability is
\* unavailable. For every combination of include_* flags and every way the
\* construction of an optional tool can fail, the build raises nothing but an
\* engine or llm error, and the registry of a returned agent holds exactly the
\* enabled tools whose construction succeeded.
C21_BuildSurvivesUnavailableTools ==
    LET enabled == {n \in ToolNames :
                       /\ build.include[n]
                       /\ n = "tavily" => build.tavily = "ok"
                       /\ n = "neo4j" => (build.file = "neo4j" /\ build.driver_ok)}
    IN pc \notin {"build", "construct", "constructed"} =>
          /\ build.result.raises \in {"none", "ValueError: engine", "ValueError: llm"}
          /\ build.result.raises = "none" =>
                DOMAIN tools = {Str(<<n>>) : n \in enabled}

\* C22: no plan step, act step or routing adds, removes or replaces an entry
\* of the registry; an act step resolves its action to the registry's entry,
\* which is the capability the act step before it got for the same name.
C22_RegistryImmutable ==
    [][/\ tools' = tools
       /\ (pc = "act" /\ act_trace'.branch = "invoked") =>
             /\ act_trace'.tool = tools[action]
             /\ (act_trace.branch = "invoked" /\ act_trace.name = action) =>
                   act_trace'.tool = act_trace.tool]_vars
C22_Witness ==
    /\ act_calls = 2
    /\ Len(messages) = 5
    /\ act_trace.branch = "invoked"
    /\ act_trace.tool = "run_shell"
    /\ messages[3].type = "tool" /\ messages[3].name = <<"shell">>
    /\ messages[5].type = "tool" /\ messages[5].name = <<"shell">>
    /\ DOMAIN tools = {Str(<<"shell">>), Str(<<"neo4j">>)}

\* C24: messages is append-only within a run: every step keeps the records
\* there are, in their order; a plan step that completes appends exactly one
\* assistant record, an act step at most one tool record, routing none.
C24_HistoryAppendOnly ==
    [][/\ Len(messages') >= Len(messages)
       /\ SubSeq(messages', 1, Len(messages)) = messages
       /\ pc' = "route" =>
             /\ Len(messages') = Len(messages) + 1
             /\ messages'[Len(messages')].type = "ai"
       /\ pc = "act" =>
             /\ Len(messages') <= Len(messages) + 1
             /\ Len(messages') = Len(messages) + 1 =>
                   messages'[Len(messages')].type = "tool"
       /\ pc = "route" => messages' = messages]_vars
C24_Witness ==
    /\ pc = "plan"
    /\ Len(messages) = 5
    /\ [i \in 1..5 |-> messages[i].type] = <<"human", "ai", "tool", "ai", "tool">>

\* C25: iterations goes up by exactly one in every plan step that completes
\* and is left alone by act_node, by routing and by a plan step that raises;
\* it never goes down, and after every step it is the number of planner calls
\* whose plan step completed (all of them, less the one that ended the run by
\* raising).
C25_IterationsCountPlanSteps ==
    [][/\ pc' = "route" => iterations' = iterations + 1
       /\ pc' # "route" => iterations' = iterations
       /\ iterations' >= iterations
       /\ iterations' = planner_calls'
                           - (IF pc' \in {"planner_failed", "plan_raised"} THEN 1 ELSE 0)]_vars
C25_Witness ==
    /\ pc = "END"
    /\ iterations = 3
    /\ planner_calls = 3
    /\ act_calls = 2

\* C26: act_node hands the capability the normalised input: None becomes an
\* empty dict, a string goes through as it is, a mapping becomes a dict with
\* the same keys and values, anything else goes through as it is; normalising
\* what was handed over changes nothing.
C26_InputNormalised ==
    [][(pc = "act" /\ act_trace'.branch = "invoked") =>
          /\ invocation' =
                CASE action_input = PyNone                  -> [t |-> "dict", s |-> <<"{}">>]
                  [] action_input.t = "str"                 -> action_input
                  [] action_input.t \in {"dict", "mapping"} ->
                         [t |-> "dict", s |-> action_input.s]
                  [] OTHER                                  -> action_input
          /\ _normalise_tool_input(invocation') = invocation']_vars
C26_Witness ==
    /\ act_trace.branch = "invoked"
    /\ act_calls = 2
    /\ invocation = PyDict(<<"{}">>)
    /\ response_text = <<"{action:neo4j,final_response:early}">>
    /\ act_trace.name = Str(<<"neo4j">>)

\* C27 (as stated): whatever value the capability returns, act_node completes
\* with an observation string and raises nothing: a string goes through as it
\* is, a value json.dumps can serialise is rendered by json.dumps, and any
\* value it cannot serialise is rendered by str().
C27_EveryResultRendered ==
    [][(pc = "act" /\ act_trace'.branch = "invoked" /\ ~act_trace'.outcome.raises) =>
          LET result == act_trace'.outcome.value
          IN /\ pc' = "plan"
             /\ last_observation' =
                   Str(IF result.t = "str" THEN result.s
                       ELSE IF JsonDumpsError(result) = "none" THEN JsonDumps(result)
                       ELSE result.s)]_vars

\* C28: a build whose engine selector, trimmed and lower-cased, is neither
\* "langgraph" nor "deepagents" fails at build time and returns no handle, so
\* no planner or capability is ever invoked; the error is the unsupported
\* engine error unless _initialise_tools raised before the selector was looked
\* at. Every selector that normalises to a supported engine is accepted: the
\* build does not raise the unsupported engine error.
C28_EngineSelectorChecked ==
    LET supported == build.engine \in {<<"langgraph">>, <<"deepagents">>,
                                       <<" ", "LangGraph", "\n">>, <<"DEEPAGENTS">>}
    IN pc \notin {"build", "construct", "constructed"} =>
          /\ ~supported =>
                /\ pc = "build_failed"
                /\ build.result.handle = "none"
                /\ build.result.raises
                      = IF build.file = "malformed" THEN "TOMLDecodeError"
                        ELSE "ValueError: engine"
                /\ tools = <<>>
                /\ planner_calls = 0 /\ act_calls = 0
          /\ supported => build.result.raises # "ValueError: engine"
          /\ (supported /\ build.file # "malformed" /\ build.llm = "chat_model") =>
                build.result.handle \in {"langgraph", "deepagents"}
C28_Witness ==
    /\ pc = "build_failed"
    /\ build.engine = <<"autogen">>
    /\ build.file = "neo4j"
    /\ build.result = [raises |-> "ValueError: engine", handle |-> "none", registry |-> <<>>]

\* C29: Neo4jClient constructed with no driver, no config and no usable
\* credentials (a Secrets without neo4j entry, or none passed and the secrets
\* file missing or without usable neo4j section) raises Neo4jToolError and
\* yields no client; constructed with an injected driver it never loads
\* secrets and never fails.
C29_ClientConstruction ==
    pc = "constructed" =>
        /\ (/\ build.driver = "none"
            /\ build.config = "none"
            /\ \/ build.secrets = "without_neo4j"
               \/ build.secrets = "none" /\ build.file \in {"missing", "no_neo4j"})
           => /\ build.result.raises = "Neo4jToolError"
              /\ ~build.result.client
        /\ build.driver # "none" =>
              /\ build.result.raises = "none"
              /\ build.result.client
              /\ ~build.result.loads
C29_Witness ==
    /\ pc = "constructed"
    /\ build.driver = "driver"
    /\ build.config = "none"
    /\ build.secrets = "none"
    /\ build.file = "malformed"
    /\ build.result = [raises |-> "none", client |-> TRUE, loads |-> FALSE]

\* C30: after every plan step the action written into the appended record is
\* the action the step stored, action_input is the decision's input, and a
\* rejected action is recorded and stored as "finish", never under the name
\* the planner gave.
C30_RecordedActionIsStoredAction ==
    pc = "route" =>
        LET record == messages[Len(messages)]
            decided == DecidedAction(LastDecision)
        IN /\ record.type = "ai"
           /\ record.content = <<"Thought: ">> \o thought.s \o <<"\nAction: ">> \o action.s
           /\ action_input = (IF "input" \in DOMAIN LastDecision
                              THEN LastDecision["input"] ELSE PyNone)
           /\ decided \notin (DOMAIN tools) \cup {FINISH} =>
                 /\ action = FINISH
                 /\ record.content[Len(record.content)] = "finish"
C30_Witness ==
    /\ pc = "route"
    /\ response_text = <<"{action:search,thought:need web}">>
    /\ messages[Len(messages)].content
          = <<"Thought: ", "need web", "\nAction: ", "finish">>
    /\ action = FINISH
    /\ iterations = 2

\* C23: two runs started on one compiled graph and interleaved node by node
\* each stop as they would have stopped alone, given the same planner answers
\* and the same capability outcome: same way of stopping, same messages,
\* iterations, action, action_input, thought, last_observation and
\* final_response, same number of planner and act_node calls.
C23_InterleavedRunsAsAlone ==
    /\ Terminal(ThisRun) =>
          Visible(ThisRun) =
             Visible(RunAlone(FreshRun(script), PairRegistry, max_iterations))
    /\ (other.pc # "none" /\ Terminal(other)) =>
          Visible(other) =
             Visible(RunAlone(FreshRun(other.script), PairRegistry, max_iterations))

\* Both runs have stopped at END, each after the shell capability ran for it
\* with a different outcome, and each holds its own observation.
C23_Witness ==
    /\ other.pc = "END"
    /\ pc = "END"
    /\ act_calls = 1
    /\ other.act_calls = 1
    /\ act_trace.branch = "invoked"
    /\ other.act_trace.branch = "invoked"
    /\ script.tool # other.script.tool
    /\ last_observation # other.last_observation
    /\ Len(messages) = 4
    /\ Len(other.messages) = 4

\* C31: a plan step whose planner output decodes to an object without an
\* action key decides "finish", puts no diagnostic message into the plan, and
\* ends the run on that step: the router says END and final_response is the
\* text of the first non-empty one of final_response, message, input and
\* thought, or of the raw output when none is.
C31_MissingActionKeyFinishes ==
    [][(pc = "plan" /\ pc' = "route"
          /\ JsonIsMapping(Candidate(response_text'))
          /\ "action" \notin DOMAIN _parse_plan(response_text'))
       => LET p == _parse_plan(response_text')
              field(k) == Get(p, k, PyNone)
              chosen == IF Truthy(field("final_response")) THEN field("final_response")
                        ELSE IF Truthy(field("message")) THEN field("message")
                        ELSE IF Truthy(field("input")) THEN field("input")
                        ELSE IF Truthy(field("thought")) THEN field("thought")
                        ELSE Str(response_text')
          IN /\ action' = FINISH
             /\ plan' = p
             /\ final_response' = Str(chosen.s)
             /\ router(action', iterations', tools', max_iterations') = "END"]_vars

\* The planner answered an object with a message and an input and no action;
\* the run has ended with the message as its answer.
C31_Witness ==
    /\ pc = "END"
    /\ response_text = <<"{message:m,input:i}">>
    /\ "action" \notin DOMAIN plan
    /\ action = FINISH
    /\ final_response = Str(<<"m">>)
    /\ max_iterations >= 2
    /\ iterations = 1

\* C32: when a plan step reaches the iteration budget with a registered tool as
\* its action, the router says END and the tool is not run for that step: the
\* run stops with action still the tool name and action_input still what the
\* planner gave as input, the last message the step's own AIMessage, one
\* act_node call fewer than plan steps, and final_response the text of the
\* first non-empty one of the plan's final_response, message, input and
\* thought, or of the raw output.
C32_BudgetStopsBeforeTool ==
    (pc \in {"route", "END"} /\ iterations >= max_iterations
        /\ action \in DOMAIN tools)
    => LET field(k) == Get(plan, k, PyNone)
           chosen == IF Truthy(field("final_response")) THEN field("final_response")
                     ELSE IF Truthy(field("message")) THEN field("message")
                     ELSE IF Truthy(field("input")) THEN field("input")
                     ELSE IF Truthy(field("thought")) THEN field("thought")
                     ELSE Str(response_text)
       IN /\ router(action, iterations, tools, max_iterations) = "END"
          /\ action = field("action")
          /\ action_input = field("input")
          /\ final_response = Str(chosen.s)
          /\ messages[Len(messages)].type = "ai"
          /\ act_calls = iterations - 1

\* A run with budget 2 has stopped on its second plan step, which asked for
\* the shell tool with input ls; the first step's tool call did run.
C32_Witness ==
    /\ pc = "END"
    /\ max_iterations = 2
    /\ iterations = 2
    /\ action = Str(<<"shell">>)
    /\ action \in DOMAIN tools
    /\ action_input = Str(<<"ls">>)
    /\ final_response = Str(<<"ls">>)
    /\ act_calls = 1
    /\ Len(messages) = 4

\* C33: in a run started by agent.invoke with a fresh state, every state
\* plan_node hands to the router has an action that is "finish" or a registry
\* key, so the router never ends the run for an unregistered action, act_node
\* is only ever entered with a registered action, and act_node never takes its
\* no-such-tool branch.
C33_UnregisteredBranchesDead ==
    /\ pc = "route" =>
          /\ action = FINISH \/ action \in DOMAIN tools
          /\ ~(action # FINISH /\ iterations < max_iterations
                  /\ action \notin DOMAIN tools)
    /\ pc = "act" => action \in DOMAIN tools
    /\ act_trace.branch # "missing"

\* The planner asked for a tool the registry does not have, with turns left;
\* plan_node hands the router "finish".
C33_Witness ==
    /\ pc = "route"
    /\ iterations < max_iterations
    /\ Get(_parse_plan(response_text), "action", PyNone) = Str(<<"search">>)
    /\ Str(<<"search">>) \notin DOMAIN tools
    /\ Str(<<"shell">>) \in DOMAIN tools
    /\ action = FINISH

\* C34: when a run that started with iterations 0 and h messages has stopped at
\* END, it holds h + 2 * iterations - 1 messages: the h it started with, then
\* AIMessage and ToolMessage in turn, starting and ending with an AIMessage.
C34_TerminalHistoryShape ==
    pc = "END" =>
       LET h == Len(caller_messages)
       IN /\ Len(messages) = h + 2 * iterations - 1
          /\ SubSeq(messages, 1, h) = caller_messages
          /\ \A i \in 1..(2 * iterations - 1) :
                messages[h + i].type = IF i % 2 = 1 THEN "ai" ELSE "tool"

\* A run that started with three messages has stopped after two plan steps
\* and one tool call: six messages.
C34_Witness ==
    /\ pc = "END"
    /\ Len(caller_messages) = 3
    /\ iterations = 2
    /\ act_calls = 1
    /\ Len(messages) = 6
    /\ messages[5].type = "tool"
    /\ messages[6].type = "ai"

C36_CommandBuildsThenRunsOnce ==
    pc # "cli" =>
       IF BuildOutcome(build).raises = "none"
       THEN /\ build.result.invoked = 1
            /\ pc \in {"plan", "deepagents"}
            /\ messages = <<HumanMessage(<<"Test task">>)>>
            /\ iterations = 0
       ELSE /\ build.result.status = "error"
            /\ build.result.exit_code = 1
            /\ build.result.invoked = 0
            /\ pc = "exit"

====
